---- MODULE Spec2Model ----
(***************************************************************************)
(* A model of factorio-cluster-finder: the DotGraph wrapper with its two   *)
(* lazily built lookup maps (graphviz/graph.rs), the DotGraphBuilder       *)
(* (graphviz/builder.rs), the statement-to-graph conversion of parse       *)
(* (graphviz/dot.rs) and the greedy cluster growth of main (main.rs).      *)
(*                                                                         *)
(* Conventions.  A String is a sequence of one-character strings.  A       *)
(* HashMap is a set of <<key, value>> pairs with at most one pair per key. *)
(* An Option is a sequence of length at most one (<<>> is None).  A        *)
(* NodeIndex is the position of the node in the engine's node vector,      *)
(* counted from 1 (the Rust index plus one); 0 never is an index.          *)
(***************************************************************************)
EXTENDS Integers, Sequences, FiniteSets, TLC

VARIABLES
    \* ---- DotGraph under mutation (graph.rs)
    dg,             \* the wrapper: metadata, engine graph, both caches
    idRefs,         \* outstanding Ref views of the id_map cell
    labelRefs,      \* outstanding Ref views of the label_map cell
    ret,            \* the map the last id_map()/label_map() call returned
    cellPanic,      \* a RefCell borrow conflict has aborted the program
    \* ---- DotGraphBuilder (builder.rs)
    builder,        \* the builder's fields
    built,          \* Option: the outcome of build()
    \* ---- parse and write (dot.rs, graph.rs)
    statements,     \* GraphInternal: strict, _type, id, statements
    parsed,         \* Option: the outcome of parse on statements
    written,        \* Option: the writes DotGraph::write made to the sink
    reparsed,       \* Option: the outcome of parse on the written text
    sink,           \* Option: a sink that may fail, after write has returned
    \* ---- cluster growth (main.rs)
    recipe,         \* the parsed recipe graph and the index of the seed id
    node_set,       \* the remaining-node pool
    current_cluster,
    scores,         \* the candidate list of the running pass
    current,        \* <<current_deps, current_outputs>> of the running pass
    cluster0,       \* the cluster as it was when the running pass started
    pc,             \* position of main
    passes,         \* number of growth passes started
    out             \* the lines printed so far

cacheVars == <<dg, idRefs, labelRefs, ret, cellPanic>>
buildVars == <<builder, built>>
parseVars == <<statements, parsed, written, reparsed, sink>>
growVars  == <<recipe, node_set, current_cluster, scores, current, cluster0,
               pc, passes, out>>
vars == <<cacheVars, buildVars, parseVars, growVars>>

-----------------------------------------------------------------------------
(* Generic helpers *)

None == <<>>
Some(v) == <<v>>
IsSome(o) == Len(o) = 1
Unwrap(o) == o[1]

Range(s) == {s[i] : i \in 1..Len(s)}

SeqsUpTo(S, n) == UNION {[1..k -> S] : k \in 0..n}

Max(S) == CHOOSE x \in S : \A y \in S : y <= x

\* HashMap::new / Default::default
EmptyMap == {}

\* HashMap::insert: the new value replaces the one stored under the key
MapInsert(m, k, v) == {p \in m : p[1] # k} \cup {<<k, v>>}

\* HashMap::extend: every pair of other is inserted
MapExtend(m, other) == {p \in m : \A q \in other : q[1] # p[1]} \cup other

MapKeys(m) == {p[1] : p \in m}

\* HashMap::contains_key
MapHas(m, k) == \E p \in m : p[1] = k

\* HashMap::get, for a key that is present
MapGet(m, k) == (CHOOSE p \in m : p[1] = k)[2]

\* HashMap::get as an Option
MapLookup(m, k) == IF MapHas(m, k) THEN Some(MapGet(m, k)) ELSE None

\* Vec::swap_remove: the last element takes the place of the removed one
SwapRemove(s, i) ==
    [j \in 1..(Len(s) - 1) |-> IF j = i THEN s[Len(s)] ELSE s[j]]

-----------------------------------------------------------------------------
(* Node, Edge and the engine graph (graph.rs 10-64; petgraph::Graph) *)

\* Node::new
Node(id, attributes) == [id |-> id, attributes |-> attributes]

\* Edge::new, together with the endpoints the engine stores for the edge
Edge(source, target, attributes) ==
    [source |-> source, target |-> target, attributes |-> attributes]

\* Graph::new
EmptyGraph == [nodes |-> <<>>, edges |-> <<>>]

\* Graph::node_indices
NodeIndices(g) == 1..Len(g.nodes)

\* Graph::add_node
AddNode(g, node) == [g EXCEPT !.nodes = Append(@, node)]

\* Graph::add_edge aborts when an endpoint is not a node of the graph
CanAddEdge(g, e) == e.source \in NodeIndices(g) /\ e.target \in NodeIndices(g)

\* Graph::add_edge
AddEdge(g, e) == [g EXCEPT !.edges = Append(@, e)]

\* Graph::remove_edge
RemoveEdge(g, ei) == [g EXCEPT !.edges = SwapRemove(@, ei)]

\* Graph::remove_node, first half: every edge incident to the node is removed
\* with remove_edge.  The engine unlinks them along its adjacency lists; the
\* model takes the one stored last first.
RECURSIVE RemoveIncident(_, _)
RemoveIncident(g, ix) ==
    LET inc == {ei \in 1..Len(g.edges) :
                    g.edges[ei].source = ix \/ g.edges[ei].target = ix}
    IN  IF inc = {} THEN g ELSE RemoveIncident(RemoveEdge(g, Max(inc)), ix)

\* Graph::remove_node, second half: the node vector is swap_removed and the
\* edges of the node that moved are pointed at its new index.
RemoveNode(g, ix) ==
    LET g1   == RemoveIncident(g, ix)
        last == Len(g1.nodes)
        mv(i) == IF i = last THEN ix ELSE i
    IN  [nodes |-> SwapRemove(g1.nodes, ix),
         edges |-> [ei \in 1..Len(g1.edges) |->
                      [g1.edges[ei] EXCEPT !.source = mv(@), !.target = mv(@)]]]

-----------------------------------------------------------------------------
(* DotGraph (graph.rs 74-239) *)

\* DotGraph::new: both caches start empty
DotGraphNew(strict, type, id, graph_attributes, node_attributes, edge_attributes, graph) ==
    [strict |-> strict, type |-> type, id |-> id,
     graph_attributes |-> graph_attributes,
     node_attributes |-> node_attributes,
     edge_attributes |-> edge_attributes,
     graph |-> graph, label_map |-> None, id_map |-> None]

\* The collect() of id_map: the nodes are visited in index order and each
\* (id, ix) is inserted, so a later node replaces an earlier one of equal id.
RECURSIVE CollectIds(_, _, _)
CollectIds(g, ix, m) ==
    IF ix > Len(g.nodes) THEN m
    ELSE CollectIds(g, ix + 1, MapInsert(m, g.nodes[ix].id, ix))

\* A label_map that files a node without a "label" under the empty label
RECURSIVE CollectLabelsWithDefault(_, _, _)
CollectLabelsWithDefault(g, ix, m) ==
    IF ix > Len(g.nodes) THEN m
    ELSE LET at == g.nodes[ix].attributes
         IN  CollectLabelsWithDefault(g, ix + 1,
                MapInsert(m, IF MapHas(at, "label") THEN MapGet(at, "label") ELSE <<>>, ix))

\* The filter_map + collect() of label_map: only a node that has a "label"
\* attribute contributes a pair.
RECURSIVE CollectLabels(_, _, _)
CollectLabels(g, ix, m) ==
    IF ix > Len(g.nodes) THEN m
    ELSE LET at == g.nodes[ix].attributes
         IN  CollectLabels(g, ix + 1,
                IF MapHas(at, "label") THEN MapInsert(m, MapGet(at, "label"), ix)
                ELSE m)

\* DotGraph::id_map on a wrapper value: the wrapper afterwards (cache filled)
IdMapFill(d) ==
    IF IsSome(d.id_map) THEN d
    ELSE [d EXCEPT !.id_map = Some(CollectIds(d.graph, 1, EmptyMap))]

\* DotGraph::label_map on a wrapper value: the wrapper afterwards
LabelMapFill(d) ==
    IF IsSome(d.label_map) THEN d
    ELSE [d EXCEPT !.label_map = Some(CollectLabels(d.graph, 1, EmptyMap))]

\* A deref_mut that forgets the label_map cell
DerefMutKeepsLabelMap(d) == [d EXCEPT !.id_map = None]

\* DerefMut::deref_mut on a wrapper value: both cells are emptied with take()
DerefMut(d) == [d EXCEPT !.id_map = None, !.label_map = None]

-----------------------------------------------------------------------------
(* Values the variables of a part hold while another part is explored *)

CacheIdle ==
    /\ dg = DotGraphNew(FALSE, "Digraph", None, EmptyMap, EmptyMap, EmptyMap, EmptyGraph)
    /\ idRefs = 0 /\ labelRefs = 0 /\ ret = None /\ cellPanic = FALSE

BuildIdle == builder = None /\ built = None

ParseIdle ==
    /\ statements = None /\ parsed = None /\ written = None /\ reparsed = None
    /\ sink = None

GrowIdle ==
    /\ recipe = None /\ node_set = {} /\ current_cluster = {} /\ scores = <<>>
    /\ current = <<0, 0>> /\ cluster0 = {} /\ pc = "idle" /\ passes = 0 /\ out = <<>>

-----------------------------------------------------------------------------
(* The wrapper under mutation: graph.rs 117-144 and 233-239 *)

CacheMaxNodes == 2
CacheMaxEdges == 1
MaxRefs == 2

CacheIds == {<<"a">>, <<"b">>}
CacheAttributes == {EmptyMap, {<<"label", <<"l">>>>}, {<<"color", <<"l">>>>}}
CacheNodes == {Node(id, at) : id \in CacheIds, at \in CacheAttributes}

\* id_map(): a filled cell is handed out as it is; an empty one is rebuilt
\* from the nodes and stored under borrow_mut, which aborts while a view of
\* the cell is held.
IdMapCall ==
    /\ ~cellPanic /\ idRefs < MaxRefs
    /\ IF ~IsSome(dg.id_map) /\ idRefs > 0
       THEN cellPanic' = TRUE /\ UNCHANGED <<dg, idRefs, ret>>
       ELSE /\ dg' = IdMapFill(dg)
            /\ idRefs' = idRefs + 1
            /\ ret' = Some(<<"id_map", Unwrap(dg'.id_map)>>)
            /\ UNCHANGED cellPanic
    /\ UNCHANGED <<labelRefs, buildVars, parseVars, growVars>>

\* label_map(): as id_map(), on the other cell
LabelMapCall ==
    /\ ~cellPanic /\ labelRefs < MaxRefs
    /\ IF ~IsSome(dg.label_map) /\ labelRefs > 0
       THEN cellPanic' = TRUE /\ UNCHANGED <<dg, labelRefs, ret>>
       ELSE /\ dg' = LabelMapFill(dg)
            /\ labelRefs' = labelRefs + 1
            /\ ret' = Some(<<"label_map", Unwrap(dg'.label_map)>>)
            /\ UNCHANGED cellPanic
    /\ UNCHANGED <<idRefs, buildVars, parseVars, growVars>>

\* A Ref returned by id_map() goes out of scope
DropIdRef ==
    /\ ~cellPanic /\ idRefs > 0
    /\ idRefs' = idRefs - 1
    /\ UNCHANGED <<dg, labelRefs, ret, cellPanic, buildVars, parseVars, growVars>>

\* A Ref returned by label_map() goes out of scope
DropLabelRef ==
    /\ ~cellPanic /\ labelRefs > 0
    /\ labelRefs' = labelRefs - 1
    /\ UNCHANGED <<dg, idRefs, ret, cellPanic, buildVars, parseVars, growVars>>

\* A mutable access that is granted while views of the caches are held
MutateUnderViews(g2) ==
    /\ ~cellPanic
    /\ dg' = [DerefMut(dg) EXCEPT !.graph = g2]
    /\ ret' = None
    /\ UNCHANGED <<idRefs, labelRefs, cellPanic, buildVars, parseVars, growVars>>

\* Mutable access to the engine graph: deref_mut takes &mut self, which the
\* borrow checker grants only when no Ref of the wrapper is alive, and the
\* engine operation g -> g2 then runs on the graph it returned.
Mutate(g2) ==
    /\ ~cellPanic /\ idRefs = 0 /\ labelRefs = 0
    /\ dg' = [DerefMut(dg) EXCEPT !.graph = g2]
    /\ ret' = None
    /\ UNCHANGED <<idRefs, labelRefs, cellPanic, buildVars, parseVars, growVars>>

MutAddNode ==
    \E node \in CacheNodes :
        /\ Len(dg.graph.nodes) < CacheMaxNodes
        /\ Mutate(AddNode(dg.graph, node))

MutRemoveNode ==
    \E ix \in NodeIndices(dg.graph) : Mutate(RemoveNode(dg.graph, ix))

MutAddEdge ==
    \E s \in NodeIndices(dg.graph), t \in NodeIndices(dg.graph) :
        /\ Len(dg.graph.edges) < CacheMaxEdges
        /\ Mutate(AddEdge(dg.graph, Edge(s, t, EmptyMap)))

MutRemoveEdge ==
    \E ei \in 1..Len(dg.graph.edges) : Mutate(RemoveEdge(dg.graph, ei))

\* graph[ix].id = id through IndexMut
MutSetId ==
    \E ix \in NodeIndices(dg.graph), id \in CacheIds :
        Mutate([dg.graph EXCEPT !.nodes[ix].id = id])

\* graph[ix].attributes = at through IndexMut
MutSetAttributes ==
    \E ix \in NodeIndices(dg.graph), at \in CacheAttributes :
        Mutate([dg.graph EXCEPT !.nodes[ix].attributes = at])

InitCache == CacheIdle /\ BuildIdle /\ ParseIdle /\ GrowIdle

NextCache ==
    \/ IdMapCall \/ LabelMapCall \/ DropIdRef \/ DropLabelRef
    \/ MutAddNode \/ MutRemoveNode \/ MutAddEdge \/ MutRemoveEdge
    \/ MutSetId \/ MutSetAttributes

SpecCache == InitCache /\ [][NextCache]_vars

\* What a full recomputation over the present nodes gives: a key for every
\* id (label) some node carries, mapped to the last node carrying it.
FullIdMap ==
    {<<dg.graph.nodes[ix].id, ix>> : ix \in
        {i \in NodeIndices(dg.graph) :
            \A j \in NodeIndices(dg.graph) :
                dg.graph.nodes[j].id = dg.graph.nodes[i].id => j <= i}}

HasLabel(ix) == \E p \in dg.graph.nodes[ix].attributes : p[1] = "label"
LabelOf(ix) == (CHOOSE p \in dg.graph.nodes[ix].attributes : p[1] = "label")[2]

FullLabelMap ==
    {<<LabelOf(ix), ix>> : ix \in
        {i \in NodeIndices(dg.graph) :
            /\ HasLabel(i)
            /\ \A j \in NodeIndices(dg.graph) :
                  (HasLabel(j) /\ LabelOf(j) = LabelOf(i)) => j <= i}}

\* C1: every id_map()/label_map() call returns exactly the map a full
\* recomputation over the node set at call time gives (ret is the map of the
\* last call and is forgotten at the next mutable access), and both cells are
\* empty after a mutable access, so a filled cell is never stale.
C1_CacheNeverStale ==
    /\ IsSome(ret) /\ Unwrap(ret)[1] = "id_map" => Unwrap(ret)[2] = FullIdMap
    /\ IsSome(ret) /\ Unwrap(ret)[1] = "label_map" => Unwrap(ret)[2] = FullLabelMap
    /\ IsSome(dg.id_map) => Unwrap(dg.id_map) = FullIdMap
    /\ IsSome(dg.label_map) => Unwrap(dg.label_map) = FullLabelMap

\* C1 witness: a label_map() call answered after two nodes sharing a label
\* were added through deref_mut: the second one is returned, and the id map
\* cell is empty.
C1_Witness ==
    /\ IsSome(ret) /\ Unwrap(ret)[1] = "label_map"
    /\ Len(dg.graph.nodes) = 2
    /\ Unwrap(ret)[2] = {<<(<<"l">>), 2>>}
    /\ ~IsSome(dg.id_map)


\* C15: the map a label_map() call returns has as its keys exactly the
\* "label" values of the nodes, one entry per key, every entry leads to a
\* node whose "label" is the key, and no entry leads to a node without a
\* "label" attribute.
C15_LabelMapOnlyLabelled ==
    (IsSome(ret) /\ Unwrap(ret)[1] = "label_map") =>
        LET m == Unwrap(ret)[2]
        IN  /\ {p[1] : p \in m} = {LabelOf(ix) : ix \in {i \in NodeIndices(dg.graph) : HasLabel(i)}}
            /\ \A p, q \in m : p[1] = q[1] => p = q
            /\ \A p \in m : /\ p[2] \in NodeIndices(dg.graph)
                             /\ HasLabel(p[2]) /\ LabelOf(p[2]) = p[1]
            /\ \A ix \in NodeIndices(dg.graph) :
                  ~HasLabel(ix) => \A p \in m : p[2] # ix

\* C15 witness: of two nodes the first has a label and the second only a
\* colour; the map returned holds the first alone
C15_Witness ==
    /\ IsSome(ret) /\ Unwrap(ret)[1] = "label_map"
    /\ Len(dg.graph.nodes) = 2
    /\ HasLabel(1) /\ dg.graph.nodes[2].attributes = {<<"color", <<"l">>>>}
    /\ Unwrap(ret)[2] = {<<(<<"l">>), 1>>}

\* C20: no call ends in a borrow conflict; a call made while a view of the
\* same cache is held leaves the wrapper as it is and returns the map the
\* cell holds; and a cell is given a rebuilt map only in a state where no
\* view of that cell is held.
C20_ViewsNeverConflict ==
    /\ [](~cellPanic)
    /\ [][(idRefs > 0 /\ idRefs' = idRefs + 1) =>
            (dg' = dg /\ IsSome(dg.id_map)
             /\ ret' = Some(<<"id_map", Unwrap(dg.id_map)>>))]_vars
    /\ [][(labelRefs > 0 /\ labelRefs' = labelRefs + 1) =>
            (dg' = dg /\ IsSome(dg.label_map)
             /\ ret' = Some(<<"label_map", Unwrap(dg.label_map)>>))]_vars
    /\ [][(IsSome(dg'.id_map) /\ dg'.id_map # dg.id_map) => idRefs = 0]_vars
    /\ [][(IsSome(dg'.label_map) /\ dg'.label_map # dg.label_map) => labelRefs = 0]_vars

\* C20 witness: two views of the id map and one of the label map are held
\* at once, the last call was an id_map() answered from the filled cell
C20_Witness ==
    /\ idRefs = 2 /\ labelRefs = 1 /\ ~cellPanic
    /\ Len(dg.graph.nodes) = 2
    /\ IsSome(dg.id_map) /\ ret = Some(<<"id_map", Unwrap(dg.id_map)>>)

-----------------------------------------------------------------------------
(* DotGraphBuilder: builder.rs 17-133, and the edge_fn of parse, the one   *)
(* edge-derivation step of the repository: dot.rs 105-117                  *)

\* An EdgeInternal: the chain of node ids of an edge statement
EdgeInternal(nodes, attributes) == [nodes |-> nodes, attributes |-> attributes]

\* A pairing that joins the first id of the chain to every later one
ChainPairsFromFirst(nodes) ==
    [i \in 1..(IF Len(nodes) = 0 THEN 0 ELSE Len(nodes) - 1) |-> <<nodes[1], nodes[i + 1]>>]

\* e.nodes.iter().zip(e.nodes.iter().skip(1))
ChainPairs(nodes) ==
    [i \in 1..(IF Len(nodes) = 0 THEN 0 ELSE Len(nodes) - 1) |-> <<nodes[i], nodes[i + 1]>>]

\* edges.iter().flat_map(...): the (attributes, source id, target id) of
\* every pair of every chain, in statement order
RECURSIVE FlatPairs(_)
FlatPairs(edges) ==
    IF edges = <<>> THEN <<>>
    ELSE LET e  == Head(edges)
             ps == ChainPairs(e.nodes)
         IN  [i \in 1..Len(ps) |-> <<e.attributes, ps[i][1], ps[i][2]>>]
             \o FlatPairs(Tail(edges))

\* The collect() of edge_fn over the pairs not yet resolved.  r holds the
\* wrapper (its id_map cell is filled by the first lookup), the triples
\* made so far, every lookup with its answer, and whether an unwrap failed.
RECURSIVE ResolvePairs(_, _)
ResolvePairs(pairs, r) ==
    IF pairs = <<>> \/ r.status # "ok" THEN r
    ELSE LET p  == Head(pairs)
             d1 == IdMapFill(r.dot_graph)
             m  == Unwrap(d1.id_map)
             s  == MapLookup(m, p[2])
             t  == MapLookup(m, p[3])
         IN  IF ~IsSome(s)
             THEN [r EXCEPT !.dot_graph = d1, !.status = "lookup_failed",
                            !.lookups = Append(@, <<p[2], s>>)]
             ELSE IF ~IsSome(t)
             THEN [r EXCEPT !.dot_graph = d1, !.status = "lookup_failed",
                            !.lookups = @ \o <<(<<p[2], s>>), (<<p[3], t>>)>>]
             ELSE ResolvePairs(Tail(pairs),
                    [r EXCEPT !.dot_graph = d1,
                              !.lookups = @ \o <<(<<p[2], s>>), (<<p[3], t>>)>>,
                              !.edges = Append(@, Edge(Unwrap(s), Unwrap(t), p[1]))])

\* edge_fn called with the wrapper
EdgeFn(edges, d) ==
    ResolvePairs(FlatPairs(edges),
        [status |-> "ok", dot_graph |-> d, observed |-> d.graph,
         edges |-> <<>>, lookups |-> <<>>])

\* DotGraphBuilder::new
BuilderNew(type) ==
    [strict |-> None, type |-> type, id |-> None, graph_attributes |-> None,
     node_attributes |-> None, edge_attributes |-> None, nodes |-> None,
     edges |-> None, edges_fn |-> None, graph |-> None]

\* Option::unwrap_or
UnwrapOr(o, default) == IF IsSome(o) THEN Unwrap(o) ELSE default

\* for node in nodes { graph.add_node(node) }
RECURSIVE AddNodes(_, _)
AddNodes(g, nodes) ==
    IF nodes = <<>> THEN g ELSE AddNodes(AddNode(g, Head(nodes)), Tail(nodes))

\* for (edge, source, target) in edges { graph.add_edge(source, target, edge) }
\* r.status turns to "add_edge_failed" at the first edge the engine refuses.
RECURSIVE AddEdges(_, _)
AddEdges(r, edges) ==
    IF edges = <<>> \/ r.status # "ok" THEN r
    ELSE IF ~CanAddEdge(r.graph, Head(edges))
         THEN [r EXCEPT !.status = "add_edge_failed"]
         ELSE AddEdges([r EXCEPT !.graph = AddEdge(@, Head(edges))], Tail(edges))

\* A build() that wraps the engine graph before the initial nodes are in it
BuildBaseWithoutNodes(b) ==
    AddEdges([status |-> "ok", graph |-> UnwrapOr(b.graph, EmptyGraph)],
             UnwrapOr(b.edges, <<>>))

\* build(), lines 101-112: the supplied or an empty engine graph, then every
\* initial node, then every initial edge
BuildBase(b) ==
    AddEdges([status |-> "ok",
              graph |-> AddNodes(UnwrapOr(b.graph, EmptyGraph), UnwrapOr(b.nodes, <<>>))],
             UnwrapOr(b.edges, <<>>))

\* A build() that inserts the first returned triple and drops the others
AddDerivedFirstOnly(r, edges) ==
    IF edges = <<>> \/ r.status # "ok" THEN r
    ELSE IF ~CanAddEdge(r.dot_graph.graph, Head(edges))
         THEN [r EXCEPT !.status = "add_edge_failed"]
         ELSE [r EXCEPT !.dot_graph =
                  [DerefMut(r.dot_graph) EXCEPT !.graph = AddEdge(@, Head(edges))]]

\* build(), lines 127-129: dot_graph.add_edge goes through deref_mut
RECURSIVE AddDerived(_, _)
AddDerived(r, edges) ==
    IF edges = <<>> \/ r.status # "ok" THEN r
    ELSE IF ~CanAddEdge(r.dot_graph.graph, Head(edges))
         THEN [r EXCEPT !.status = "add_edge_failed"]
         ELSE AddDerived(
                [r EXCEPT !.dot_graph =
                    [DerefMut(r.dot_graph) EXCEPT !.graph = AddEdge(@, Head(edges))]],
                Tail(edges))

\* DotGraphBuilder::build.  The outcome holds the wrapper, whether build
\* returned ("ok") or aborted, the graph the derivation step was given and
\* the lookups it made.
Build(b) ==
    LET base == BuildBase(b)
        d    == DotGraphNew(UnwrapOr(b.strict, FALSE), b.type, UnwrapOr(b.id, None),
                            UnwrapOr(b.graph_attributes, EmptyMap),
                            UnwrapOr(b.node_attributes, EmptyMap),
                            UnwrapOr(b.edge_attributes, EmptyMap), base.graph)
        r0   == [status |-> base.status, dot_graph |-> d, observed |-> None,
                 derived |-> <<>>, lookups |-> <<>>]
    IN  IF base.status # "ok" \/ ~IsSome(b.edges_fn) THEN r0
        ELSE LET f == EdgeFn(Unwrap(b.edges_fn), d)
             IN  AddDerived([status |-> f.status, dot_graph |-> f.dot_graph,
                             observed |-> Some(f.observed), derived |-> f.edges,
                             lookups |-> f.lookups],
                            f.edges)

-----------------------------------------------------------------------------
(* The builder as a state machine: the setters in any order, then build() *)

BuildMaxNodes == 2
BuildMaxEdges == 1

NodeA == Node(<<"a">>, EmptyMap)
NodeB == Node(<<"b">>, EmptyMap)
NodeC == Node(<<"c">>, EmptyMap)

BuildNodeLists == SeqsUpTo({NodeA, NodeB}, BuildMaxNodes)
BuildEdgeLists ==
    SeqsUpTo({Edge(1, 1, EmptyMap), Edge(1, 2, EmptyMap), Edge(2, 3, EmptyMap)},
             BuildMaxEdges)
BuildGraphs ==
    {[nodes |-> <<NodeC>>, edges |-> <<>>],
     [nodes |-> <<NodeC, NodeA>>, edges |-> <<Edge(1, 2, EmptyMap)>>]}
BuildEdgeFns ==
    {<<>>,
     <<EdgeInternal(<<(<<"a">>), (<<"b">>)>>, EmptyMap)>>,
     <<EdgeInternal(<<(<<"b">>), (<<"c">>), (<<"b">>)>>, EmptyMap)>>,
     <<EdgeInternal(<<(<<"c">>)>>, EmptyMap),
       EdgeInternal(<<(<<"c">>), (<<"a">>)>>, {<<"label", <<"l">>>>})>>}
BuildAttributes == {{<<"color", <<"l">>>>}}

\* The graph is being assembled: build() has not consumed the builder
Assembling == IsSome(builder) /\ built = None

SetField(b) ==
    /\ Assembling
    /\ builder' = Some(b)
    /\ UNCHANGED <<built, cacheVars, parseVars, growVars>>

BuilderStrict == SetField([Unwrap(builder) EXCEPT !.strict = Some(TRUE)])

BuilderId == SetField([Unwrap(builder) EXCEPT !.id = Some(Some(<<"g">>))])

BuilderGraphAttributes ==
    \E at \in BuildAttributes :
        SetField([Unwrap(builder) EXCEPT !.graph_attributes = Some(at)])

BuilderNodeAttributes ==
    \E at \in BuildAttributes :
        SetField([Unwrap(builder) EXCEPT !.node_attributes = Some(at)])

BuilderEdgeAttributes ==
    \E at \in BuildAttributes :
        SetField([Unwrap(builder) EXCEPT !.edge_attributes = Some(at)])

BuilderGraph ==
    \E g \in BuildGraphs : SetField([Unwrap(builder) EXCEPT !.graph = Some(g)])

BuilderNodes ==
    \E ns \in BuildNodeLists : SetField([Unwrap(builder) EXCEPT !.nodes = Some(ns)])

BuilderEdges ==
    \E es \in BuildEdgeLists : SetField([Unwrap(builder) EXCEPT !.edges = Some(es)])

BuilderEdgesFn ==
    \E f \in BuildEdgeFns : SetField([Unwrap(builder) EXCEPT !.edges_fn = Some(f)])

\* build() consumes the builder; builder keeps the fields it was called with
BuilderBuild ==
    /\ Assembling
    /\ built' = Some(Build(Unwrap(builder)))
    /\ UNCHANGED <<builder, cacheVars, parseVars, growVars>>

InitBuild ==
    /\ builder = Some(BuilderNew("Digraph")) /\ built = None
    /\ CacheIdle /\ ParseIdle /\ GrowIdle

NextBuild ==
    \/ BuilderStrict \/ BuilderId \/ BuilderGraphAttributes
    \/ BuilderNodeAttributes \/ BuilderEdgeAttributes \/ BuilderGraph
    \/ BuilderNodes \/ BuilderEdges \/ BuilderEdgesFn \/ BuilderBuild

SpecBuild == InitBuild /\ [][NextBuild]_vars

\* The nodes the builder was given: those of the pre-built graph, then the
\* initial node list
GivenNodes ==
    LET b == Unwrap(builder)
    IN  (IF IsSome(b.graph) THEN Unwrap(b.graph).nodes ELSE <<>>)
        \o (IF IsSome(b.nodes) THEN Unwrap(b.nodes) ELSE <<>>)

\* The edges the builder was given: those of the pre-built graph, then the
\* initial edge list
GivenEdges ==
    LET b == Unwrap(builder)
    IN  (IF IsSome(b.graph) THEN Unwrap(b.graph).edges ELSE <<>>)
        \o (IF IsSome(b.edges) THEN Unwrap(b.edges) ELSE <<>>)

\* C2: whenever build() ran the edge-derivation step, the step was given a
\* wrapper holding every node and every edge of the pre-built graph and of
\* the initial lists, and every id_map() lookup it made for an id one of
\* those nodes carries resolved to the index of a node carrying that id.
C2_DerivationAfterInsertion ==
    (IsSome(built) /\ IsSome(Unwrap(built).observed)) =>
        LET r == Unwrap(built)
            seen == Unwrap(r.observed)
        IN  /\ seen.nodes = GivenNodes
            /\ seen.edges = GivenEdges
            /\ \A i \in 1..Len(r.lookups) :
                  (\E k \in 1..Len(GivenNodes) : GivenNodes[k].id = r.lookups[i][1]) =>
                      /\ IsSome(r.lookups[i][2])
                      /\ Unwrap(r.lookups[i][2]) \in 1..Len(GivenNodes)
                      /\ GivenNodes[Unwrap(r.lookups[i][2])].id = r.lookups[i][1]

\* C2 witness: no pre-built graph, the ids a and b come from the initial
\* node list alone, and the step resolved a to index 1 and b to index 2.
C2_Witness ==
    /\ IsSome(built) /\ Unwrap(built).status = "ok"
    /\ ~IsSome(Unwrap(builder).graph)
    /\ Unwrap(builder).nodes = Some(<<NodeA, NodeB>>)
    /\ Unwrap(built).lookups = <<(<<(<<"a">>), Some(1)>>), (<<(<<"b">>), Some(2)>>)>>

\* C18: the wrapper build() returns holds as nodes those of the pre-built
\* graph followed by the initial node list, and as edges those of the
\* pre-built graph, then the initial edge list, then the triples the
\* edge-derivation step returned, in the order it returned them; the step
\* saw the same nodes, and without a step the edges are the given ones.
C18_BuildContents ==
    (IsSome(built) /\ Unwrap(built).status = "ok") =>
        LET r == Unwrap(built)
            g == r.dot_graph.graph
        IN  /\ g.nodes = GivenNodes
            /\ g.edges = GivenEdges \o r.derived
            /\ IsSome(r.observed) => Unwrap(r.observed).nodes = g.nodes
            /\ ~IsSome(Unwrap(builder).edges_fn) => g.edges = GivenEdges

\* C18 witness: a pre-built graph of c, a and an edge, the initial node b
\* and an initial edge, and a step that returned b -> c and c -> b
C18_Witness ==
    /\ IsSome(built) /\ Unwrap(built).status = "ok"
    /\ Unwrap(built).dot_graph.graph.nodes = <<NodeC, NodeA, NodeB>>
    /\ Unwrap(built).dot_graph.graph.edges
          = <<Edge(1, 2, EmptyMap), Edge(1, 1, EmptyMap),
              Edge(3, 1, EmptyMap), Edge(1, 3, EmptyMap)>>
    /\ Unwrap(built).derived = <<Edge(3, 1, EmptyMap), Edge(1, 3, EmptyMap)>>

-----------------------------------------------------------------------------
(* parse: dot.rs 60-128, from the GraphInternal the grammar produced *)

\* Statement::Node
NodeStatement(node) == [kind |-> "Node", node |-> node]

\* Statement::Edge
EdgeStatement(edge) == [kind |-> "Edge", edge |-> edge]

\* Statement::GlobalAttribute
AttributeStatement(type, attributes) ==
    [kind |-> "GlobalAttribute", type |-> type, attributes |-> attributes]

\* GraphInternal
GraphInternal(strict, type, id, stmts) ==
    [strict |-> strict, type |-> type, id |-> id, statements |-> stmts]

\* Lines 69-79: the statements are sorted into the three attribute maps, the
\* node list and the edge list.
RECURSIVE Collect(_, _)
Collect(stmts, acc) ==
    IF stmts = <<>> THEN acc
    ELSE LET st == Head(stmts)
         IN  Collect(Tail(stmts),
                CASE st.kind = "Node" -> [acc EXCEPT !.nodes = Append(@, st.node)]
                  [] st.kind = "Edge" -> [acc EXCEPT !.edges = Append(@, st.edge)]
                  [] st.type = "Graph" ->
                        [acc EXCEPT !.graph_attributes = MapExtend(@, st.attributes)]
                  [] st.type = "Node" ->
                        [acc EXCEPT !.node_attributes = MapExtend(@, st.attributes)]
                  [] OTHER ->
                        [acc EXCEPT !.edge_attributes = MapExtend(@, st.attributes)])

\* A parse that adds a declared node whether or not its id was seen
AddDeclaredNoCheck(r, nodes) ==
    [graph |-> AddNodes(r.graph, nodes),
     node_id_set |-> r.node_id_set \cup {nodes[i].id : i \in 1..Len(nodes)}]

\* Lines 84-89: a declared node is added unless its id was seen before
RECURSIVE AddDeclared(_, _)
AddDeclared(r, nodes) ==
    IF nodes = <<>> THEN r
    ELSE LET node == Head(nodes)
         IN  AddDeclared(
                IF node.id \notin r.node_id_set
                THEN [graph |-> AddNode(r.graph, node),
                      node_id_set |-> r.node_id_set \cup {node.id}]
                ELSE r,
                Tail(nodes))

\* A parse that makes a node of the first id of a chain only
AddChainIdsHeadOnly(r, ids) ==
    IF ids = <<>> \/ Head(ids) \in r.node_id_set THEN r
    ELSE [graph |-> AddNode(r.graph, Node(Head(ids), EmptyMap)),
          node_id_set |-> r.node_id_set \cup {Head(ids)}]

\* A parse that makes a node of every id of a chain, seen before or not
AddChainIdsNoCheck(r, ids) ==
    [graph |-> AddNodes(r.graph, [i \in 1..Len(ids) |-> Node(ids[i], EmptyMap)]),
     node_id_set |-> r.node_id_set \cup Range(ids)]

\* Lines 94-102: the ids of one chain; an id not seen before becomes a node
\* without attributes
RECURSIVE AddChainIds(_, _)
AddChainIds(r, ids) ==
    IF ids = <<>> THEN r
    ELSE LET node_id == Head(ids)
         IN  AddChainIds(
                IF node_id \notin r.node_id_set
                THEN [graph |-> AddNode(r.graph, Node(node_id, EmptyMap)),
                      node_id_set |-> r.node_id_set \cup {node_id}]
                ELSE r,
                Tail(ids))

\* A parse that creates no node for the ids the edges use
AddImplicitNothing(r, edges) == r

\* Lines 93-103: the chains of all edge statements, in statement order
RECURSIVE AddImplicit(_, _)
AddImplicit(r, edges) ==
    IF edges = <<>> THEN r
    ELSE AddImplicit(AddChainIds(r, Head(edges).nodes), Tail(edges))

\* parse, from line 63 on: the outcome of build()
ParseInternal(gi) ==
    LET c == Collect(gi.statements,
                [graph_attributes |-> EmptyMap, node_attributes |-> EmptyMap,
                 edge_attributes |-> EmptyMap, nodes |-> <<>>, edges |-> <<>>])
        declared == AddDeclared([graph |-> EmptyGraph, node_id_set |-> {}], c.nodes)
        all == AddImplicit(declared, c.edges)
    IN  Build([BuilderNew(gi.type) EXCEPT
                 !.strict = Some(gi.strict),
                 !.id = Some(gi.id),
                 !.graph_attributes = Some(c.graph_attributes),
                 !.node_attributes = Some(c.node_attributes),
                 !.edge_attributes = Some(c.edge_attributes),
                 !.graph = Some(all.graph),
                 !.edges_fn = Some(c.edges)])

-----------------------------------------------------------------------------
(* DotGraph::write: graph.rs 160-222.  The sink receives one chunk per     *)
(* write!/writeln! call; a chunk names the call and carries the strings    *)
(* the call formatted, character by character.                             *)

DQ == "\""
BS == "\\"

\* {:?} of a String: the characters between double quotes, a double quote
\* and a backslash each preceded by a backslash
RECURSIVE EscapeDebug(_)
EscapeDebug(str) ==
    IF str = <<>> THEN <<>>
    ELSE (IF Head(str) \in {DQ, BS} THEN <<BS, Head(str)>> ELSE <<Head(str)>>)
         \o EscapeDebug(Tail(str))

FmtDebug(str) == <<DQ>> \o EscapeDebug(str) \o <<DQ>>

\* "{}" of a String inside a literal pair of double quotes: the characters
\* as they are
FmtQuotedDisplay(str) == <<DQ>> \o str \o <<DQ>>

\* The attributes in the order an iteration over the HashMap yields them:
\* order is the one this call of write happens to see
\* (debug: the value is written with {:?}, else with "{}" between quotes).
AttributeChunks(attributes, order, debug) ==
    LET keys == SelectSeq(order, LAMBDA k : MapHas(attributes, k))
    IN  [i \in 1..Len(keys) |->
            [op |-> "attribute", key |-> keys[i],
             value |-> IF debug THEN FmtDebug(MapGet(attributes, keys[i]))
                       ELSE FmtQuotedDisplay(MapGet(attributes, keys[i]))]]

\* Lines 173-193: a default-attribute block, written only when not empty
GlobalChunks(type, attributes, order) ==
    IF attributes = EmptyMap THEN <<>>
    ELSE <<[op |-> "global", type |-> type]>>
         \o AttributeChunks(attributes, order, TRUE)
         \o <<[op |-> "end_list"]>>

\* Lines 195-202: one node statement; the values are written with "{}"
NodeChunks(g, ix, order) ==
    <<[op |-> "node", id |-> FmtDebug(g.nodes[ix].id)]>>
    \o AttributeChunks(g.nodes[ix].attributes, order, FALSE)
    \o <<[op |-> "end_list"]>>

\* Lines 204-218: one edge statement
EdgeChunks(d, ei, order) ==
    LET e == d.graph.edges[ei]
    IN  <<[op |-> "edge",
           source |-> FmtDebug(d.graph.nodes[e.source].id),
           edgeop |-> IF d.type = "Digraph" THEN "->" ELSE "--",
           target |-> FmtDebug(d.graph.nodes[e.target].id)],
          [op |-> "begin_list"]>>
        \o AttributeChunks(e.attributes, order, TRUE)
        \o <<[op |-> "end_list"]>>

RECURSIVE AllNodeChunks(_, _, _)
AllNodeChunks(g, ix, order) ==
    IF ix > Len(g.nodes) THEN <<>>
    ELSE NodeChunks(g, ix, order) \o AllNodeChunks(g, ix + 1, order)

RECURSIVE AllEdgeChunks(_, _, _)
AllEdgeChunks(d, ei, order) ==
    IF ei > Len(d.graph.edges) THEN <<>>
    ELSE EdgeChunks(d, ei, order) \o AllEdgeChunks(d, ei + 1, order)

\* DotGraph::write on a sink that never fails: every chunk, in order
Write(d, order) ==
    (IF d.strict THEN <<[op |-> "strict"]>> ELSE <<>>)
    \o <<[op |-> "type", type |-> d.type]>>
    \o (IF IsSome(d.id) THEN <<[op |-> "id", id |-> FmtDebug(Unwrap(d.id))]>> ELSE <<>>)
    \o <<[op |-> "begin"]>>
    \o GlobalChunks("Graph", d.graph_attributes, order)
    \o GlobalChunks("Node", d.node_attributes, order)
    \o GlobalChunks("Edge", d.edge_attributes, order)
    \o AllNodeChunks(d.graph, 1, order)
    \o AllEdgeChunks(d, 1, order)
    \o <<[op |-> "end"]>>

\* A write that goes on with the next call after a call has failed and
\* reports the failure at the end
RECURSIVE WriteChunksToTheEnd(_, _, _)
WriteChunksToTheEnd(chunks, i, w) ==
    IF i > Len(chunks)
    THEN [w EXCEPT !.result = IF w.fail_at \in 1..Len(chunks) THEN "Err" ELSE "Ok"]
    ELSE WriteChunksToTheEnd(chunks, i + 1,
            [w EXCEPT !.calls = @ + 1,
                      !.output = IF w.fail_at = i THEN @ ELSE Append(@, chunks[i])])

\* The ? behind every write!/writeln!: the calls are made in order from
\* the i-th on, and the first one the sink refuses ends write with Err.
\* w.fail_at is the call the sink refuses (0: none), w.calls counts the
\* calls made, w.output is what the sink has taken.
RECURSIVE WriteChunks(_, _, _)
WriteChunks(chunks, i, w) ==
    IF i > Len(chunks) THEN [w EXCEPT !.result = "Ok"]
    ELSE IF w.fail_at = i
         THEN [w EXCEPT !.calls = @ + 1, !.result = "Err"]
         ELSE WriteChunks(chunks, i + 1,
                [w EXCEPT !.calls = @ + 1, !.output = Append(@, chunks[i])])

\* DotGraph::write(&self, writer) on a sink that refuses its fail_at-th
\* call: the sink afterwards, the result, and the wrapper, which write only
\* reads (it borrows neither cell)
WriteTo(d, order, fail_at) ==
    [sink |-> WriteChunks(Write(d, order), 1,
                 [fail_at |-> fail_at, calls |-> 0, output |-> <<>>, result |-> "none"]),
     order |-> order,
     dot_graph |-> d]

-----------------------------------------------------------------------------
(* The grammar (the generated parser included at dot.rs 57), as far as the *)
(* text of write exercises it.  The parser is generated at build time; the *)
(* string rules are read off the tests at dot.rs 130-158: inside double    *)
(* quotes \" stands for a double quote and \\ for a backslash, and the     *)
(* string ends at the first double quote that is not escaped.              *)

\* doubleQuotedInner from position i on: the characters read, or None when
\* the text ends inside the string, goes on after the closing quote, or
\* holds a backslash before any other character
RECURSIVE ReadInner(_, _, _)
ReadInner(text, i, acc) ==
    IF i > Len(text) THEN None
    ELSE IF text[i] = DQ THEN (IF i = Len(text) THEN Some(acc) ELSE None)
    ELSE IF text[i] = BS
         THEN IF i + 1 <= Len(text) /\ text[i + 1] \in {DQ, BS}
              THEN ReadInner(text, i + 2, Append(acc, text[i + 1]))
              ELSE None
    ELSE ReadInner(text, i + 1, Append(acc, text[i]))

\* doubleQuotedString: the whole text is one quoted string
ReadQuoted(text) ==
    IF Len(text) >= 2 /\ text[1] = DQ THEN ReadInner(text, 2, <<>>) ELSE None

\* The statement list: r.open is the statement whose attribute list is being
\* read, r.ok turns FALSE at the first string that does not read back
RECURSIVE ReadStatements(_, _, _)
ReadStatements(chunks, i, r) ==
    IF i > Len(chunks) \/ ~r.ok THEN r
    ELSE LET c == chunks[i]
         IN  ReadStatements(chunks, i + 1,
                CASE c.op = "global" ->
                        [r EXCEPT !.open = AttributeStatement(c.type, EmptyMap)]
                  [] c.op = "node" ->
                        IF IsSome(ReadQuoted(c.id))
                        THEN [r EXCEPT !.open =
                                NodeStatement(Node(Unwrap(ReadQuoted(c.id)), EmptyMap))]
                        ELSE [r EXCEPT !.ok = FALSE]
                  [] c.op = "edge" ->
                        IF IsSome(ReadQuoted(c.source)) /\ IsSome(ReadQuoted(c.target))
                        THEN [r EXCEPT !.open =
                                EdgeStatement(EdgeInternal(
                                    <<Unwrap(ReadQuoted(c.source)),
                                      Unwrap(ReadQuoted(c.target))>>, EmptyMap))]
                        ELSE [r EXCEPT !.ok = FALSE]
                  [] c.op = "attribute" ->
                        IF ~IsSome(ReadQuoted(c.value)) THEN [r EXCEPT !.ok = FALSE]
                        ELSE LET v == Unwrap(ReadQuoted(c.value))
                             IN  CASE r.open.kind = "Node" ->
                                        [r EXCEPT !.open.node.attributes =
                                            MapInsert(@, c.key, v)]
                                   [] r.open.kind = "Edge" ->
                                        [r EXCEPT !.open.edge.attributes =
                                            MapInsert(@, c.key, v)]
                                   [] OTHER ->
                                        [r EXCEPT !.open.attributes =
                                            MapInsert(@, c.key, v)]
                  [] c.op = "end_list" ->
                        [r EXCEPT !.statements = Append(@, r.open)]
                  [] OTHER -> r)

\* graph(s): the GraphInternal of a text, None when the text is rejected
ReadGraph(chunks) ==
    LET strict == \E i \in 1..Len(chunks) : chunks[i].op = "strict"
        type == (CHOOSE c \in Range(chunks) : c.op = "type").type
        ids == SelectSeq(chunks, LAMBDA c : c.op = "id")
        id == IF ids = <<>> THEN Some(None)
              ELSE IF IsSome(ReadQuoted(ids[1].id))
                   THEN Some(ReadQuoted(ids[1].id)) ELSE None
        r == ReadStatements(chunks, 1,
                [ok |-> TRUE, statements |-> <<>>, open |-> [kind |-> "none"]])
    IN  IF IsSome(id) /\ r.ok
        THEN Some(GraphInternal(strict, type, Unwrap(id), r.statements))
        ELSE None

\* parse(s), lines 60-128: graph(s).unwrap() aborts on a rejected text
ParseText(chunks) ==
    IF IsSome(ReadGraph(chunks)) THEN ParseInternal(Unwrap(ReadGraph(chunks)))
    ELSE [status |-> "syntax_error"]

-----------------------------------------------------------------------------
(* parse, write and parse again *)

MaxStatements == 3

IdX == <<"x">>
IdY == <<"y">>
IdZ == <<"z">>
Plain == <<"v">>
Escaped == <<BS, DQ>>

KeyOrders == {<<"color", "label">>, <<"label", "color">>}

StatementPool ==
    {NodeStatement(Node(IdX, EmptyMap)),
     NodeStatement(Node(IdX, {<<"label", Plain>>})),
     NodeStatement(Node(IdY, {<<"label", Escaped>>, <<"color", Plain>>})),
     EdgeStatement(EdgeInternal(<<IdX, IdY>>, EmptyMap)),
     EdgeStatement(EdgeInternal(<<IdY, IdZ, IdX>>, {<<"label", Escaped>>})),
     EdgeStatement(EdgeInternal(<<IdZ>>, EmptyMap)),
     AttributeStatement("Graph", {<<"color", Plain>>}),
     AttributeStatement("Graph", {<<"color", Escaped>>, <<"label", Plain>>}),
     AttributeStatement("Node", {<<"color", Escaped>>}),
     AttributeStatement("Edge", {<<"label", Plain>>})}

Headers ==
    {<<FALSE, "Digraph", None>>,
     <<TRUE, "Graph", Some(<<"g", DQ, BS>>)>>,
     <<FALSE, "Graph", Some(<<"g">>)>>}

\* parse on the statements the grammar produced
ParseStep ==
    /\ IsSome(statements) /\ parsed = None
    /\ parsed' = Some(ParseInternal(Unwrap(statements)))
    /\ UNCHANGED <<statements, written, reparsed, sink, cacheVars, buildVars, growVars>>

\* write on the graph parse returned, into a sink that takes every chunk
WriteStep ==
    /\ IsSome(parsed) /\ Unwrap(parsed).status = "ok" /\ written = None
    /\ \E order \in KeyOrders : written' = Some(Write(Unwrap(parsed).dot_graph, order))
    /\ UNCHANGED <<statements, parsed, reparsed, sink, cacheVars, buildVars, growVars>>

\* parse on the text write produced
ReparseStep ==
    /\ IsSome(written) /\ reparsed = None
    /\ reparsed' = Some(ParseText(Unwrap(written)))
    /\ UNCHANGED <<statements, parsed, written, sink, cacheVars, buildVars, growVars>>

InitParse ==
    /\ \E h \in Headers, stmts \in SeqsUpTo(StatementPool, MaxStatements) :
          statements = Some(GraphInternal(h[1], h[2], h[3], stmts))
    /\ parsed = None /\ written = None /\ reparsed = None /\ sink = None
    /\ CacheIdle /\ BuildIdle /\ GrowIdle

NextParse == ParseStep \/ WriteStep \/ ReparseStep

SpecParse == InitParse /\ [][NextParse]_vars

-----------------------------------------------------------------------------
(* write into a sink that fails *)

SinkMaxStatements == 1

\* The caller looks both maps up before it writes: both cells are filled
SinkFillCaches ==
    /\ IsSome(parsed) /\ Unwrap(parsed).status = "ok" /\ sink = None
    /\ ~IsSome(Unwrap(parsed).dot_graph.label_map)
    /\ parsed' = Some([Unwrap(parsed) EXCEPT !.dot_graph = LabelMapFill(IdMapFill(@))])
    /\ UNCHANGED <<statements, written, reparsed, sink, cacheVars, buildVars, growVars>>

\* write on the graph parse returned, into a sink that refuses one call
\* or none
SinkWrite ==
    /\ IsSome(parsed) /\ Unwrap(parsed).status = "ok" /\ sink = None
    /\ \E order \in KeyOrders :
       \E fail_at \in 0..Len(Write(Unwrap(parsed).dot_graph, order)) :
          sink' = Some(WriteTo(Unwrap(parsed).dot_graph, order, fail_at))
    /\ UNCHANGED <<statements, parsed, written, reparsed, cacheVars, buildVars, growVars>>

InitSink ==
    /\ \E h \in Headers, stmts \in SeqsUpTo(StatementPool, SinkMaxStatements) :
          statements = Some(GraphInternal(h[1], h[2], h[3], stmts))
    /\ parsed = None /\ written = None /\ reparsed = None /\ sink = None
    /\ CacheIdle /\ BuildIdle /\ GrowIdle

NextSink == ParseStep \/ SinkFillCaches \/ SinkWrite

SpecSink == InitSink /\ [][NextSink]_vars

\* The statements of the input, by kind
InputStatements == Unwrap(statements).statements
NodeStatementsAt == {i \in 1..Len(InputStatements) : InputStatements[i].kind = "Node"}
EdgeStatementsAt == {i \in 1..Len(InputStatements) : InputStatements[i].kind = "Edge"}
DeclaredIds == {InputStatements[i].node.id : i \in NodeStatementsAt}
ReferencedIds == UNION {Range(InputStatements[i].edge.nodes) : i \in EdgeStatementsAt}

\* The nodes of the graph parse built that carry the id
NodesWithId(r, id) == {ix \in 1..Len(r.dot_graph.graph.nodes) : r.dot_graph.graph.nodes[ix].id = id}

\* Occurrences of a value in a sequence
Count(seq, v) == Cardinality({i \in 1..Len(seq) : seq[i] = v})

\* The nodes of a wrapper as (id, attributes), the edges as
\* (source id, target id, attributes)
NodeList(d) == d.graph.nodes
EdgeList(d) ==
    [ei \in 1..Len(d.graph.edges) |->
        <<d.graph.nodes[d.graph.edges[ei].source].id,
          d.graph.nodes[d.graph.edges[ei].target].id,
          d.graph.edges[ei].attributes>>]

SameBag(a, b) == \A v \in Range(a) \cup Range(b) : Count(a, v) = Count(b, v)

\* Equality of two wrappers up to node and edge iteration order
SameGraph(d, e) ==
    /\ d.strict = e.strict /\ d.type = e.type /\ d.id = e.id
    /\ d.graph_attributes = e.graph_attributes
    /\ d.node_attributes = e.node_attributes
    /\ d.edge_attributes = e.edge_attributes
    /\ SameBag(NodeList(d), NodeList(e))
    /\ SameBag(EdgeList(d), EdgeList(e))

\* C3: parse(write(g)) is equal to g up to node and edge iteration order,
\* whatever characters the attribute values hold.
C3_RoundTrip ==
    IsSome(reparsed) =>
        /\ Unwrap(reparsed).status = "ok"
        /\ SameGraph(Unwrap(reparsed).dot_graph, Unwrap(parsed).dot_graph)

\* C4: parse returns a graph with one node per distinct id declared or
\* referenced; an id that edges reference and no statement declares is
\* carried by exactly one node, which has no attributes; and the lone edge
\* statement x -> y gives two such nodes and the edge from x to y.
C4_ImplicitNodes ==
    IsSome(parsed) =>
        LET r == Unwrap(parsed)
            g == r.dot_graph.graph
        IN  /\ r.status = "ok"
            /\ Len(g.nodes) = Cardinality(DeclaredIds \cup ReferencedIds)
            /\ \A id \in ReferencedIds \ DeclaredIds :
                  /\ Cardinality(NodesWithId(r, id)) = 1
                  /\ \A ix \in NodesWithId(r, id) : g.nodes[ix].attributes = EmptyMap
            /\ InputStatements = <<EdgeStatement(EdgeInternal(<<IdX, IdY>>, EmptyMap))>> =>
                  /\ g.nodes = <<Node(IdX, EmptyMap), Node(IdY, EmptyMap)>>
                  /\ g.edges = <<Edge(1, 2, EmptyMap)>>

\* C4 witness: the text holds the edge x -> y alone and parse has returned
C4_Witness ==
    /\ IsSome(parsed) /\ Unwrap(parsed).status = "ok"
    /\ InputStatements = <<EdgeStatement(EdgeInternal(<<IdX, IdY>>, EmptyMap))>>
    /\ Len(Unwrap(parsed).dot_graph.graph.nodes) = 2

\* The first node statement declaring the id
FirstDeclaration(id) ==
    InputStatements[CHOOSE i \in NodeStatementsAt :
        /\ InputStatements[i].node.id = id
        /\ \A j \in NodeStatementsAt : InputStatements[j].node.id = id => i <= j].node

\* C5: for every declared id the graph holds one node with that id, and it
\* carries the attributes of the first declaration, wherever the edge
\* statements that reference the id stand in the text.
C5_FirstDeclarationWins ==
    IsSome(parsed) =>
        LET r == Unwrap(parsed)
        IN  \A id \in DeclaredIds :
                /\ Cardinality(NodesWithId(r, id)) = 1
                /\ \A ix \in NodesWithId(r, id) :
                      r.dot_graph.graph.nodes[ix] = FirstDeclaration(id)

\* C5 witness: x is referenced by an edge statement, then declared without
\* attributes, then declared again with a label; the node x has none.
C5_Witness ==
    /\ IsSome(parsed)
    /\ InputStatements = <<EdgeStatement(EdgeInternal(<<IdX, IdY>>, EmptyMap)),
                           NodeStatement(Node(IdX, EmptyMap)),
                           NodeStatement(Node(IdX, {<<"label", Plain>>}))>>
    /\ Unwrap(parsed).dot_graph.graph.nodes[1] = Node(IdX, EmptyMap)

\* The edges the edge statements ask for, from statement i on: for a chain
\* n1 ... nk with attributes A the triples (n_j, n_(j+1), A), j = 1..k-1
RECURSIVE ExpectedEdges(_)
ExpectedEdges(i) ==
    IF i > Len(InputStatements) THEN <<>>
    ELSE (IF InputStatements[i].kind # "Edge" THEN <<>>
          ELSE LET e == InputStatements[i].edge
               IN  [j \in 1..(IF Len(e.nodes) = 0 THEN 0 ELSE Len(e.nodes) - 1) |->
                       <<e.nodes[j], e.nodes[j + 1], e.attributes>>])
         \o ExpectedEdges(i + 1)

\* C13: parse returns for every statement list; the graph the edge step
\* looked ids up in already held every node of the returned graph; the step
\* looked up the source and the target id of every edge asked for, in
\* order, every lookup gave the index of a node carrying the looked-up id,
\* and the edge was inserted between the two indices found.
C13_NoLookupError ==
    IsSome(parsed) =>
        LET r == Unwrap(parsed)
            g == r.dot_graph.graph
            exp == ExpectedEdges(1)
        IN  /\ r.status = "ok"
            /\ IsSome(r.observed) /\ Unwrap(r.observed).nodes = g.nodes
            /\ Len(r.lookups) = 2 * Len(exp) /\ Len(g.edges) = Len(exp)
            /\ \A j \in 1..Len(exp) :
                  LET s == r.lookups[2 * j - 1]
                      t == r.lookups[2 * j]
                  IN  /\ s[1] = exp[j][1] /\ IsSome(s[2])
                      /\ t[1] = exp[j][2] /\ IsSome(t[2])
                      /\ g.nodes[Unwrap(s[2])].id = exp[j][1]
                      /\ g.nodes[Unwrap(t[2])].id = exp[j][2]
                      /\ g.edges[j].source = Unwrap(s[2])
                      /\ g.edges[j].target = Unwrap(t[2])

\* C13 witness: the chain y -> z -> x stands before the declaration of y;
\* z and x exist only through the chain and all four lookups have resolved
C13_Witness ==
    /\ IsSome(parsed) /\ Unwrap(parsed).status = "ok"
    /\ InputStatements = <<EdgeStatement(EdgeInternal(<<IdY, IdZ, IdX>>, {<<"label", Escaped>>})),
                           NodeStatement(Node(IdY, {<<"label", Escaped>>, <<"color", Plain>>}))>>
    /\ Unwrap(parsed).lookups = <<(<<IdY, Some(1)>>), (<<IdZ, Some(2)>>),
                                  (<<IdZ, Some(2)>>), (<<IdX, Some(3)>>)>>

\* C16: the edges of the graph parse returns are, in order, the edges the
\* edge statements ask for: a chain of k ids gives its k - 1 consecutive
\* pairs, each with the attributes of the statement, and the edges of an
\* earlier statement stand before those of a later one.
C16_ChainedEdges ==
    IsSome(parsed) => EdgeList(Unwrap(parsed).dot_graph) = ExpectedEdges(1)

\* C16 witness: x -> y, then the chain y -> z -> x with a label: three edges,
\* the two of the chain behind the first and both labelled
C16_Witness ==
    /\ IsSome(parsed)
    /\ InputStatements = <<EdgeStatement(EdgeInternal(<<IdX, IdY>>, EmptyMap)),
                           EdgeStatement(EdgeInternal(<<IdY, IdZ, IdX>>, {<<"label", Escaped>>}))>>
    /\ Unwrap(parsed).dot_graph.graph.edges
          = <<Edge(1, 2, EmptyMap), Edge(2, 3, {<<"label", Escaped>>}),
              Edge(3, 1, {<<"label", Escaped>>})>>

\* C19: no two nodes of the graph parse returns carry the same id, the
\* graph the edge step looked ids up in had no two either, and id_map() on
\* the returned wrapper holds one entry per node: its id with its index.
C19_UniqueIds ==
    IsSome(parsed) =>
        LET r == Unwrap(parsed)
            g == r.dot_graph.graph
            m == Unwrap(IdMapFill(r.dot_graph).id_map)
        IN  /\ \A i, j \in 1..Len(g.nodes) : g.nodes[i].id = g.nodes[j].id => i = j
            /\ IsSome(r.observed) =>
                  \A i, j \in 1..Len(Unwrap(r.observed).nodes) :
                      Unwrap(r.observed).nodes[i].id = Unwrap(r.observed).nodes[j].id => i = j
            /\ Cardinality(m) = Len(g.nodes)
            /\ m = {<<g.nodes[ix].id, ix>> : ix \in 1..Len(g.nodes)}

\* C19 witness: x is declared twice and used by two edge statements, y and
\* z come from the edges alone; the graph has three nodes
C19_Witness ==
    /\ IsSome(parsed)
    /\ \E i, j \in NodeStatementsAt : i # j /\ InputStatements[i].node.id = IdX
                                            /\ InputStatements[j].node.id = IdX
    /\ Len(InputStatements) = 3
    /\ InputStatements[3] = EdgeStatement(EdgeInternal(<<IdY, IdZ, IdX>>, {<<"label", Escaped>>}))
    /\ Len(Unwrap(parsed).dot_graph.graph.nodes) = 3

\* C14: when the sink refuses the k-th call of write, write returns Err,
\* the k-th call is the last one made, the sink holds what the k - 1 calls
\* before it wrote, in order, and the wrapper with both its cells is as it
\* was before the call.
C14_WriteFailurePropagates ==
    (IsSome(sink) /\ Unwrap(sink).sink.fail_at > 0) =>
        LET w == Unwrap(sink)
            k == w.sink.fail_at
            all == Write(Unwrap(parsed).dot_graph, w.order)
        IN  /\ w.sink.result = "Err"
            /\ w.sink.calls = k
            /\ w.sink.output = SubSeq(all, 1, k - 1)
            /\ w.dot_graph = Unwrap(parsed).dot_graph

\* C14 witness: both cells were filled, the sink refused the fourth call,
\* in the middle of the text, and holds the three chunks written before
C14_Witness ==
    /\ IsSome(sink) /\ Unwrap(sink).sink.fail_at = 4
    /\ Unwrap(sink).sink.result = "Err" /\ Len(Unwrap(sink).sink.output) = 3
    /\ Len(Write(Unwrap(parsed).dot_graph, Unwrap(sink).order)) > 4
    /\ IsSome(Unwrap(sink).dot_graph.id_map) /\ IsSome(Unwrap(sink).dot_graph.label_map)

-----------------------------------------------------------------------------
(* Cluster growth: main.rs 8-102.  The recipe graph is kept as the number  *)
(* of its nodes and its edges <<source, target>> in insertion order; seed  *)
(* is the index id_map() holds for "sulfuric-acid", 0 when no node carries *)
(* that id.                                                                *)

GrowMaxNodes == 3
GrowMaxEdges == 2

RecipeNodes(g) == 1..g.nodes

\* Graph::neighbors_directed(a, Outgoing): the targets of the edges leaving
\* a, the edge added last first; a self-loop yields a itself
RECURSIVE OutNeighbors(_, _, _)
OutNeighbors(g, a, ei) ==
    IF ei = 0 THEN <<>>
    ELSE (IF g.edges[ei][1] = a THEN <<g.edges[ei][2]>> ELSE <<>>)
         \o OutNeighbors(g, a, ei - 1)

\* Graph::neighbors_directed(a, Incoming): the sources of the edges entering a
RECURSIVE InNeighbors(_, _, _)
InNeighbors(g, a, ei) ==
    IF ei = 0 THEN <<>>
    ELSE (IF g.edges[ei][2] = a THEN <<g.edges[ei][1]>> ELSE <<>>)
         \o InNeighbors(g, a, ei - 1)

\* Graph::neighbors_undirected(a): the outgoing neighbours, then the incoming
\* ones, where the engine skips the self-loops it has already yielded
NeighborsUndirected(g, a) ==
    OutNeighbors(g, a, Len(g.edges))
    \o SelectSeq(InNeighbors(g, a, Len(g.edges)), LAMBDA b : b # a)

\* Iterator::count over a flat_map: the lengths added up, member by member
RECURSIVE CountOver(_, _, _)
CountOver(g, members, subgraph) ==
    IF members = {} THEN 0
    ELSE LET a == CHOOSE x \in members : TRUE
         IN  Len(SelectSeq(OutNeighbors(g, a, Len(g.edges)),
                           LAMBDA b : b \notin subgraph))
             + CountOver(g, members \ {a}, subgraph)

\* A score whose num_deps counts the edges that enter the cluster
scoreOfIncoming(subgraph, g) ==
    <<Cardinality({ei \in 1..Len(g.edges) :
          g.edges[ei][2] \in subgraph /\ g.edges[ei][1] \notin subgraph}), 0>>

\* score, lines 19-42
score(subgraph, g) ==
    LET num_deps == CountOver(g, subgraph, subgraph)
        num_outputs ==
            Cardinality({a \in subgraph :
                /\ SelectSeq(InNeighbors(g, a, Len(g.edges)),
                             LAMBDA b : b \notin subgraph) # <<>>
                /\ SelectSeq(OutNeighbors(g, a, Len(g.edges)),
                             LAMBDA b : b \in subgraph) # <<>>})
    IN  <<num_deps, num_outputs>>

\* The orders in which an iteration over a HashSet may yield its members
Orderings(S) ==
    {s \in [1..Cardinality(S) -> S] : \A i, j \in 1..Cardinality(S) : s[i] = s[j] => i = j}

\* subgraph_neighbors_with_duplicates, lines 13-18, for the order in which
\* the members are yielded
RECURSIVE subgraph_neighbors_with_duplicates(_, _, _)
subgraph_neighbors_with_duplicates(subgraph, g, order) ==
    IF order = <<>> THEN <<>>
    ELSE SelectSeq(NeighborsUndirected(g, Head(order)), LAMBDA b : b \notin subgraph)
         \o subgraph_neighbors_with_duplicates(subgraph, g, Tail(order))

\* Lines 58-63: every candidate with the score of the cluster enlarged by it
CandidateScores(cluster, g, order) ==
    LET cands == subgraph_neighbors_with_duplicates(cluster, g, order)
    IN  [i \in 1..Len(cands) |->
            <<cands[i], score(cluster \cup {cands[i]}, g)[1],
                        score(cluster \cup {cands[i]}, g)[2]>>]

\* An acceptance test that takes a candidate only when it lowers the score
AcceptsOnlyBetter(num_deps, num_outputs, current_deps, current_outputs) ==
    \/ num_deps + num_outputs < current_deps + current_outputs
    \/ (num_deps = current_deps /\ num_outputs > current_outputs)

\* Line 75
Accepts(num_deps, num_outputs, current_deps, current_outputs) ==
    \/ num_deps + num_outputs <= current_deps + current_outputs
    \/ (num_deps = current_deps /\ num_outputs > current_outputs)

\* An acceptance loop that inserts into the cluster and forgets the pool
RECURSIVE AcceptLoopKeepsPool(_, _, _)
AcceptLoopKeepsPool(list, cur, a) ==
    IF list = <<>> THEN a
    ELSE LET c == Head(list)
         IN  AcceptLoopKeepsPool(Tail(list), cur,
                IF c[1] \in a.cluster THEN a
                ELSE IF Accepts(c[2], c[3], cur[1], cur[2])
                THEN [a EXCEPT !.cluster = @ \cup {c[1]}, !.added_something = TRUE]
                ELSE a)

\* Lines 69-81: the candidates in list order.  a holds the cluster, the
\* pool, the printed lines and added_something.
RECURSIVE AcceptLoop(_, _, _)
AcceptLoop(list, cur, a) ==
    IF list = <<>> THEN a
    ELSE LET c == Head(list)
         IN  AcceptLoop(Tail(list), cur,
                IF c[1] \in a.cluster THEN a
                ELSE IF Accepts(c[2], c[3], cur[1], cur[2])
                THEN [cluster |-> a.cluster \cup {c[1]},
                      pool |-> a.pool \ {c[1]},
                      lines |-> Append(a.lines,
                                  [line |-> "adding", node |-> c[1], score |-> <<c[2], c[3]>>]),
                      added_something |-> TRUE]
                ELSE a)

\* Vec::sort_by_key is stable: an entry goes behind every entry whose key
\* is not larger
RECURSIVE InsertByKey(_, _)
InsertByKey(sorted, c) ==
    IF sorted = <<>> THEN <<c>>
    ELSE IF Head(sorted)[2] + Head(sorted)[3] <= c[2] + c[3]
         THEN <<Head(sorted)>> \o InsertByKey(Tail(sorted), c)
         ELSE <<c>> \o sorted

RECURSIVE SortByKey(_)
SortByKey(list) ==
    IF list = <<>> THEN <<>>
    ELSE InsertByKey(SortByKey(SubSeq(list, 1, Len(list) - 1)), list[Len(list)])

\* Lines 86-93: the entries whose sum is not above that of the first one
LowestLines(sorted) ==
    LET low == SelectSeq(sorted, LAMBDA c : c[2] + c[3] <= sorted[1][2] + sorted[1][3])
    IN  [i \in 1..Len(low) |->
            [line |-> "lowest", node |-> low[i][1], score |-> low[i][2] + low[i][3]]]

\* A loop without the break: after the restart the next pass is scanned
LoopGoesOnAfterRestart == "scan"

\* Line 99: the break that ends the loop after the restart
AfterRestart == "done"

\* A restart that forgets the clear and keeps the old members
ReseedWithoutClear(cluster, next) == cluster \cup {next}

\* Lines 96-97: clear, then insert(next)
Reseed(cluster, next) == {next}

\* Lines 50-55: the seed id is looked up and moved from the pool into the
\* cluster; the index expression aborts when the id is missing
Seed ==
    /\ pc = "seed"
    /\ LET g == Unwrap(recipe)
       IN  IF g.seed = 0
           THEN /\ pc' = "panic"
                /\ out' = Append(out, [line |-> "panic", at |-> "id_map()[name]"])
                /\ UNCHANGED <<current_cluster, node_set>>
           ELSE /\ current_cluster' = current_cluster \cup {g.seed}
                /\ node_set' = node_set \ {g.seed}
                /\ out' = Append(out, [line |-> "starting", node |-> g.seed,
                                       score |-> score(current_cluster', g)])
                /\ pc' = "scan"
    /\ UNCHANGED <<recipe, scores, current, cluster0, passes>>
    /\ UNCHANGED <<cacheVars, buildVars, parseVars>>

\* Lines 57-65: the candidates are scored, then the cluster itself
Scan ==
    /\ pc = "scan"
    /\ \E order \in Orderings(current_cluster) :
          scores' = CandidateScores(current_cluster, Unwrap(recipe), order)
    /\ current' = score(current_cluster, Unwrap(recipe))
    /\ cluster0' = current_cluster
    /\ passes' = passes + 1
    /\ pc' = "accept"
    /\ UNCHANGED <<recipe, node_set, current_cluster, out>>
    /\ UNCHANGED <<cacheVars, buildVars, parseVars>>

\* Lines 67-82: the acceptance loop and the separator line
Accept ==
    /\ pc = "accept"
    /\ LET a == AcceptLoop(scores, current,
                    [cluster |-> current_cluster, pool |-> node_set,
                     lines |-> <<>>, added_something |-> FALSE])
       IN  /\ current_cluster' = a.cluster
           /\ node_set' = a.pool
           /\ out' = out \o a.lines \o <<[line |-> "separator"]>>
           /\ pc' = IF a.added_something THEN "scan" ELSE "stall"
    /\ UNCHANGED <<recipe, scores, current, cluster0, passes>>
    /\ UNCHANGED <<cacheVars, buildVars, parseVars>>

\* Lines 84-100: the diagnostic and the restart.  scores[0] aborts on an
\* empty list, the unwrap on an empty pool.
Stall ==
    /\ pc = "stall"
    /\ IF scores = <<>>
       THEN /\ pc' = "panic"
            /\ out' = Append(out, [line |-> "panic", at |-> "scores[0]"])
            /\ UNCHANGED <<scores, node_set, current_cluster>>
       ELSE /\ scores' = SortByKey(scores)
            /\ IF node_set = {}
               THEN /\ pc' = "panic"
                    /\ out' = out \o LowestLines(scores')
                                  \o <<[line |-> "panic", at |-> "next().unwrap()"]>>
                    /\ UNCHANGED <<node_set, current_cluster>>
               ELSE \E next \in node_set :
                    /\ node_set' = node_set \ {next}
                    /\ current_cluster' = Reseed(current_cluster, next)
                    /\ out' = out \o LowestLines(scores')
                                  \o <<[line |-> "starting", node |-> next,
                                        score |-> score(current_cluster', Unwrap(recipe))]>>
                    /\ pc' = AfterRestart
    /\ UNCHANGED <<recipe, current, cluster0, passes>>
    /\ UNCHANGED <<cacheVars, buildVars, parseVars>>

\* Lines 45-46, for every recipe graph within the bounds
InitGrow ==
    /\ \E n \in 1..GrowMaxNodes :
       \E es \in SeqsUpTo((1..n) \X (1..n), GrowMaxEdges) :
       \E seed \in 0..n :
          /\ recipe = Some([nodes |-> n, edges |-> es, seed |-> seed])
          /\ node_set = 1..n
    /\ current_cluster = {} /\ scores = <<>> /\ current = <<0, 0>>
    /\ cluster0 = {} /\ pc = "seed" /\ passes = 0 /\ out = <<>>
    /\ CacheIdle /\ BuildIdle /\ ParseIdle

NextGrow == Seed \/ Scan \/ Accept \/ Stall

SpecGrow == InitGrow /\ [][NextGrow]_vars

\* main runs on one thread to the end: a step that can be taken is taken
SpecGrowFair == SpecGrow /\ WF_vars(NextGrow)

\* The recipe graph, read edge by edge
HasEdge(a, b) ==
    \E ei \in 1..Len(Unwrap(recipe).edges) : Unwrap(recipe).edges[ei] = <<a, b>>
AllNodes == RecipeNodes(Unwrap(recipe))

\* The restart has printed its line: a "starting" line after the first one
Restarted == \E i \in 2..Len(out) : out[i].line = "starting"

\* The last line printed
LastLine == out[Len(out)]

\* The candidates whose sum of scores is the lowest of the pass
LowestCandidates ==
    {scores[i][1] : i \in
        {k \in 1..Len(scores) :
            \A j \in 1..Len(scores) :
                scores[k][2] + scores[k][3] <= scores[j][2] + scores[j][3]}}

\* C6: a growth pass that accepts nothing is followed by a stall step that
\* runs to its end: nothing aborts after seeding, and when the step is over
\* the lowest-scoring rejected candidates have been reported, the cluster is
\* one node that was unclustered, and that node's own score is reported.
C6_StallCompletes ==
    /\ pc = "panic" => LastLine.at = "id_map()[name]"
    /\ pc = "done" =>
          /\ Cardinality(current_cluster) = 1
          /\ current_cluster \cap (cluster0 \cup node_set) = {}
          /\ LastLine.line = "starting" /\ {LastLine.node} = current_cluster
          /\ LastLine.score = score(current_cluster, Unwrap(recipe))
          /\ {out[i].node : i \in {k \in 1..Len(out) : out[k].line = "lowest"}}
                = LowestCandidates

\* C7: at most as many passes are started as the graph has nodes, a pass
\* that goes on to another pass has enlarged the cluster, main comes to its
\* end only out of the stall step (or a failed seeding), once the restart
\* has reseeded the cluster main is at its end, and every run ends.
C7_Termination ==
    /\ [](passes <= Unwrap(recipe).nodes)
    /\ [][(pc = "accept" /\ pc' = "scan") =>
            (current_cluster \subseteq current_cluster' /\ current_cluster' # current_cluster)]_vars
    /\ [][pc' \in {"done", "panic"} => pc \in {"stall", "seed"}]_vars
    /\ [](Restarted => pc = "done")
    /\ <>[](pc \in {"done", "panic"})

\* C7 witness: the pass stalled, the restart reseeded the cluster and main
\* is at its end
C7_Witness == pc = "done" /\ Restarted /\ passes >= 1

\* The distinct nodes outside the cluster that an edge from a member leads to
DistinctDeps(cluster) ==
    Cardinality({b \in AllNodes \ cluster : \E a \in cluster : HasEdge(a, b)})

\* C8: num_deps of the cluster and of every enlarged cluster is the number
\* of distinct nodes outside it that an edge from a member leads to: a node
\* reached from several members or over parallel edges counts once.
C8_DepsAreDistinctNodes ==
    pc = "accept" =>
        /\ current[1] = DistinctDeps(cluster0)
        /\ \A i \in 1..Len(scores) :
              scores[i][2] = DistinctDeps(cluster0 \cup {scores[i][1]})

\* The members with an edge coming in from outside the cluster and an edge
\* going out to a different member
SharedOutputs(cluster) ==
    Cardinality({a \in cluster :
        /\ \E b \in AllNodes \ cluster : HasEdge(b, a)
        /\ \E b \in cluster \ {a} : HasEdge(a, b)})

\* C9: num_outputs is the number of members with an edge coming in from
\* outside the cluster and an edge going out to another member; a self-loop
\* is no such edge.
C9_OutputsNeedAnotherMember ==
    pc = "accept" =>
        /\ current[2] = SharedOutputs(cluster0)
        /\ \A i \in 1..Len(scores) :
              scores[i][3] = SharedOutputs(cluster0 \cup {scores[i][1]})

\* The frontier of a cluster: the nodes outside it joined to a member by an
\* edge in either direction
Frontier(cluster) ==
    {b \in AllNodes \ cluster : \E a \in cluster : HasEdge(a, b) \/ HasEdge(b, a)}

\* The candidates the rule admits, against the cluster C0 of the pass start
Admitted(C0) ==
    {c \in Frontier(C0) :
        LET s == score(C0 \cup {c}, Unwrap(recipe))
            t == score(C0, Unwrap(recipe))
        IN  s[1] + s[2] <= t[1] + t[2] \/ (s[1] = t[1] /\ s[2] > t[2])}

\* C10: while a pass runs the list holds score(C0 + c) for every candidate
\* and current holds score(C0); when its acceptance loop is over, the
\* cluster is C0 with exactly the admitted frontier nodes added, and the
\* pool has lost exactly those.
C10_AcceptanceRule ==
    /\ pc \in {"accept", "scan", "stall"} /\ passes > 0 =>
          /\ current = score(cluster0, Unwrap(recipe))
          /\ \A i \in 1..Len(scores) :
                <<scores[i][2], scores[i][3]>>
                    = score(cluster0 \cup {scores[i][1]}, Unwrap(recipe))
    /\ pc \in {"scan", "stall"} /\ passes > 0 =>
          /\ current_cluster = cluster0 \cup Admitted(cluster0)
          /\ node_set = (AllNodes \ cluster0) \ Admitted(cluster0)

\* C10 witness: a pass is over in which a candidate was taken although the
\* sum of its scores is above the current sum: its num_deps equals
\* current_deps and its num_outputs is higher
C10_Witness ==
    /\ pc = "scan" /\ passes = 1
    /\ \E i \in 1..Len(scores) :
          /\ scores[i][1] \in current_cluster /\ scores[i][1] \notin node_set
          /\ scores[i][2] + scores[i][3] > current[1] + current[2]

\* C11: on the graph A -> B seeded with A the seed line reports (1, 0), the
\* first pass scores the cluster at (1, 0) and its one candidate B at
\* (0, 0), and when that pass is over the cluster is {A, B}: the pass does
\* not stall.
C11_ScoringExample ==
    Unwrap(recipe) = [nodes |-> 2, edges |-> <<<<1, 2>>>>, seed |-> 1] =>
        /\ pc # "seed" => out[1] = [line |-> "starting", node |-> 1, score |-> <<1, 0>>]
        /\ passes = 1 =>
              /\ current = <<1, 0>>
              /\ scores = << <<2, 0, 0>> >>
              /\ pc \in {"accept", "scan"}
              /\ pc = "scan" => current_cluster = {1, 2} /\ node_set = {}

\* C11 witness: the first pass over A -> B has ended with B accepted
C11_Witness ==
    /\ Unwrap(recipe) = [nodes |-> 2, edges |-> <<<<1, 2>>>>, seed |-> 1]
    /\ passes = 1 /\ pc = "scan" /\ current_cluster = {1, 2}
    /\ out[2] = [line |-> "adding", node |-> 2, score |-> <<0, 0>>]

\* C12: every step other than the restart keeps every member of the
\* cluster; the restart, the only step that removes a member, leaves as the
\* cluster exactly one node, taken from the pool, that was no member.
C12_ClusterGrowsUntilRestart ==
    /\ [][pc # "stall" => current_cluster \subseteq current_cluster']_vars
    /\ [][(pc = "stall" /\ pc' = "done") =>
             \E next \in node_set \ current_cluster :
                current_cluster' = {next} /\ node_set' = node_set \ {next}]_vars
    /\ [][(pc = "stall" /\ pc' # "done") => current_cluster' = current_cluster]_vars

\* C12 witness: the restart has cleared the cluster of the stalled pass and
\* reseeded it with one node of the pool
C12_Witness ==
    /\ pc = "done" /\ Restarted
    /\ cluster0 # {} /\ current_cluster \cap cluster0 = {}
    /\ Cardinality(current_cluster) = 1 /\ current_cluster \cap node_set = {}

\* C17: while a pass runs, the candidate list holds every frontier node of
\* the pass's cluster once and nothing else, and the stall diagnostic names
\* no node twice.
C17_FrontierDeduplicated ==
    /\ pc = "accept" =>
          /\ {scores[i][1] : i \in 1..Len(scores)} = Frontier(cluster0)
          /\ \A i, j \in 1..Len(scores) : scores[i][1] = scores[j][1] => i = j
    /\ \A i, j \in 1..Len(out) :
          (out[i].line = "lowest" /\ out[j].line = "lowest" /\ out[i].node = out[j].node)
              => i = j

\* C21: no node is in the cluster and in the pool at once; until the
\* restart every node is in one of the two, and once seeding has succeeded
\* the seed is in the cluster; after the restart the cluster is one node
\* that is not in the pool, the members of the cleared cluster are in
\* neither, and every other node is still in the pool.
C21_ClusterPoolDisjoint ==
    /\ current_cluster \cap node_set = {}
    /\ pc # "done" => current_cluster \cup node_set = AllNodes
    /\ pc \in {"scan", "accept", "stall"} => Unwrap(recipe).seed \in current_cluster
    /\ pc = "done" =>
          /\ Cardinality(current_cluster) = 1
          /\ cluster0 # {}
          /\ cluster0 \cap (current_cluster \cup node_set) = {}
          /\ current_cluster \cup node_set = AllNodes \ cluster0

\* C21 witness: the restart has taken one of two pooled nodes as the new
\* seed; the old seed is in neither set and the third node is still pooled
C21_Witness ==
    /\ pc = "done" /\ Restarted
    /\ Cardinality(AllNodes) = 3
    /\ Cardinality(cluster0) = 1 /\ Cardinality(node_set) = 1
    /\ cluster0 \cap (current_cluster \cup node_set) = {}

====
